---- MODULE Spec2Model ----
(***************************************************************************)
(* Model of the HarmonyHub music-generator page (MusicGeneratorPage) and   *)
(* its service (MusicGeneratorService): exercise generation, audio         *)
(* verification, the Howl primary player and the native Audio fallback.    *)
(*                                                                         *)
(* The page runs on the single JavaScript thread, so every handler and     *)
(* every callback is one atomic action.  The network, the Howl library and *)
(* the HTMLAudioElement are the environment: their callbacks fire in any   *)
(* order the browser allows.  A Howl that has been unload()ed has had its  *)
(* listeners removed and fires no callback any more.                       *)
(***************************************************************************)
EXTENDS Naturals, Integers, Sequences, FiniteSets, TLC

\* ------------------------------------------------------------------ bounds
\* number of generateExercise calls (hence of loadAudio calls) explored
MaxGen == 2
\* number of native fallback Audio elements explored
MaxNatives == 1
\* number of /chat requests explored
MaxChat == 2
\* length of the resource references getFileUrl is applied to
MaxRefLen == 5

\* ------------------------------------------------------ strings as sequences
\* environment.musicGeneratorApiUrl || 'http://localhost:8000'
ApiUrl == <<"h", "t", "t", "p", ":", "8">>

\* the decimal digits, in order of value
Digits == <<"0", "1", "2", "3", "4", "5", "6", "7", "8", "9">>

\* The mp3_url values the k-th /generate response can carry: none, or the
\* reference of a file rendered for that response, with or without the leading
\* slash.  The page never compares two references, so giving every response a
\* reference of its own loses no behaviour of the page.
Mp3Refs(k) ==
    { <<>>, IF k % 2 = 1 THEN <<"/", Digits[k + 1]>> ELSE <<Digits[k + 1]>> }

\* the midi_url of a response
MidiRef == <<"/", "m">>

\* ExerciseResponse, reduced to the two resource references the page uses
Responses(k) == { [mp3_url |-> r, midi_url |-> MidiRef] : r \in Mp3Refs(k) }

\* String.prototype.startsWith
StartsWith(s, p) == Len(s) >= Len(p) /\ SubSeq(s, 1, Len(p)) = p

\* String.prototype.endsWith
EndsWith(s, p) == Len(s) >= Len(p) /\ SubSeq(s, Len(s) - Len(p) + 1, Len(s)) = p

\* MusicGeneratorService.getFileUrl of a service whose apiUrl field is apiUrl
getFileUrlWith(apiUrl, relativeUrl) ==
    IF relativeUrl = <<>> THEN <<>>
    ELSE IF StartsWith(relativeUrl, <<"h", "t", "t", "p">>) THEN relativeUrl
    ELSE LET normalizedRelativeUrl ==
                 IF StartsWith(relativeUrl, <<"/">>) THEN relativeUrl
                 ELSE <<"/">> \o relativeUrl
             normalizedApiUrl ==
                 IF EndsWith(apiUrl, <<"/">>) THEN SubSeq(apiUrl, 1, Len(apiUrl) - 1)
                 ELSE apiUrl
         IN  normalizedApiUrl \o normalizedRelativeUrl

\* MusicGeneratorService.getFileUrl
getFileUrl(relativeUrl) == getFileUrlWith(ApiUrl, relativeUrl)

\* the values environment.musicGeneratorApiUrl configures the origin with
ApiUrls == { ApiUrl, ApiUrl \o <<"/">> }

\* the resource references getFileUrl is applied to
RefChars == {"h", "t", "p", "f", ":", "/"}
Refs == UNION { [1..n -> RefChars] : n \in 0..MaxRefLen }

\* ExerciseResponse with a midi_url that may be empty as well
ResponsesAnyMidi(k) ==
    { [mp3_url |-> r, midi_url |-> m] : r \in Mp3Refs(k), m \in {<<>>, MidiRef} }

\* String.prototype.includes
Includes(s, p) ==
    \E i \in 1..(Len(s) - Len(p) + 1) : SubSeq(s, i, i + Len(p) - 1) = p

IsDigit(c) == \E d \in 1..Len(Digits) : Digits[d] = c
DigitValue(c) == (CHOOSE d \in 1..Len(Digits) : Digits[d] = c) - 1

\* parseInt(str): <<n>> for the number its leading digits spell, <<>> for NaN
RECURSIVE ParseDigits(_, _)
ParseDigits(str, acc) ==
    IF str = <<>> \/ ~IsDigit(Head(str)) THEN acc
    ELSE ParseDigits(Tail(str), 10 * acc + DigitValue(Head(str)))

parseInt(str) ==
    IF str = <<>> \/ ~IsDigit(Head(str)) THEN <<>> ELSE <<ParseDigits(str, 0)>>

\* the content-type headers a verification response can carry; <<>> is none
ContentTypes ==
    { <<>>,
      <<"a", "u", "d", "i", "o", "/", "m", "p", "e", "g">>,
      <<"t", "e", "x", "t", "/", "h", "t", "m", "l">> }

\* the content-length headers a verification response can carry; <<>> is none
ContentLengths == { <<>>, <<"9", "9", "9">>, <<"1", "0", "0", "0">> }

\* the console warnings of loadAudio's fetch.then for the headers it reads
VerificationWarnings(contentType, contentLength) ==
    (IF ~Includes(contentType, <<"a", "u", "d", "i", "o">>)
        /\ ~Includes(contentType, <<"m", "p", "e", "g">>)
     THEN {"type"} ELSE {})
    \cup
    (IF contentLength = <<>>
        \/ (parseInt(contentLength) # <<>> /\ parseInt(contentLength)[1] < 1000)
     THEN {"size"} ELSE {})

\* the values the page offers for the parameters of an exercise
instruments == {"Trumpet", "Piano", "Violin", "Clarinet", "Flute"}
levels == {"Beginner", "Intermediate", "Advanced"}
keys == {"C Major", "G Major", "D Major", "F Major", "Bb Major", "A Minor", "E Minor"}
timeSignatures == {"3/4", "4/4"}
measureOptions == {4, 8}
generationModes == {"Exercise Parameters", "Exercise Prompt"}

\* the texts typed into the prompt field
PromptTexts == { <<>>, <<"p">> }

\* the texts typed into the chat field
ChatTexts == { <<>>, <<" ">>, <<"a">>, <<" ", "b">> }

\* the assistant texts of a turn
Placeholder == "..."
ErrorMarker == "Error: Failed to get response"
Reply == "reply"

\* String.prototype.trim
RECURSIVE TrimStart(_)
TrimStart(str) ==
    IF str # <<>> /\ Head(str) = " " THEN TrimStart(Tail(str)) ELSE str

RECURSIVE TrimEnd(_)
TrimEnd(str) ==
    IF str # <<>> /\ str[Len(str)] = " "
    THEN TrimEnd(SubSeq(str, 1, Len(str) - 1))
    ELSE str

trim(str) == TrimEnd(TrimStart(str))

\* --------------------------------------------------------------- the state
VARIABLES
    generatedExercise,  \* <<>> (null) or <<response>>
    audioPlayer,        \* 0 (null) or the session whose Howl the field holds
    isPlaying,          \* the page's isPlaying flag
    sessions,           \* one record per loadAudio call, in call order
    natives,            \* one record per native fallback Audio, in creation order
    nGen,               \* generateExercise calls made so far
    pendingGen,         \* /generate requests in flight
    loadingShown,       \* loading indicators presented and not yet dismissed
    genToasts,          \* 'Failed to generate exercise' toasts shown
    form,               \* generationMode, the selected values and customPrompt
    chatHistory,        \* the transcript: a sequence of <<user text, assistant text>>
    chatMessage,        \* the chat input field
    chatCalls,          \* one record per /chat request, in send order
    io                  \* what the last handler exchanged with the outside

vars == <<generatedExercise, audioPlayer, isPlaying, sessions, natives,
          nGen, pendingGen, loadingShown, genToasts, form, chatHistory,
          chatMessage, chatCalls, io>>

\* the fields of the page that concern the chat
chatVars == <<chatHistory, chatMessage, chatCalls>>

\* the fields of the page that concern playback
audioVars == <<audioPlayer, isPlaying, sessions, natives>>

\* A session is one call of loadAudio.
\*   url    the resolved URL (fullUrl)
\*   verif  "empty" (loadAudio returned on the empty reference), "pending",
\*          "ok", "notok" (response.ok false), "neterror" (fetch rejected)
\*   howl   the Howl built by createAudioPlayer for this session:
\*          "none", "loading", "loaded", "loaderror", "unloaded"
\*   play   what the Howl is doing: "no", "queued" (play() before it has
\*          loaded), "yes"
\*   lerr   the Howl has reported onloaderror
\*   perr   the Howl has reported onplayerror
\*   errToasts   showAudioErrorToast() calls made for this session (the
\*          success and warning toasts expire by themselves and are not kept)
NewSession(url, verif, err) ==
    [url |-> url, verif |-> verif, howl |-> "none", play |-> "no", lerr |-> FALSE,
     perr |-> FALSE,
     errToasts |-> err]

SessionIds == 1..Len(sessions)
NativeIds == 1..Len(natives)

\* private showAudioErrorToast(), attributed to session s
showAudioErrorToast(ss, s) ==
    [ss EXCEPT ![s].errToasts = @ + 1]

\* Howl.stop() followed by Howl.unload() on the Howl of session s
StopAndUnload(ss, s) ==
    [ss EXCEPT ![s].howl = "unloaded", ![s].play = "no"]

\* What a handler exchanges with the outside while it runs; io holds the
\* exchange of the handler that ran last.
\*   op       "none", "generate" (POST /generate), "verified" (the fetch
\*            response read by loadAudio), "open" (window.open),
\*            "sendChatMessage" (POST /chat, or nothing for a rejected
\*            message), "chatSuccess", "chatError" (the /chat outcome),
\*            "getFileUrlCall", "getFileUrl" (a call of the service's
\*            getFileUrl about to be made, and made)
\*   request  <<>> or <<the body posted>>
\*   url      the URL opened
\*   ctype, clen, warns   the headers read and the console warnings they caused
\*   history  the history a /chat response carried
\*   call     the /chat request the outcome belongs to
NoIO ==
    [op |-> "none", request |-> <<>>, url |-> <<>>, ctype |-> <<>>, clen |-> <<>>,
     warns |-> {}, history |-> <<>>, call |-> 0]

Init ==
    /\ generatedExercise = <<>>
    /\ audioPlayer = 0
    /\ isPlaying = FALSE
    /\ sessions = <<>>
    /\ natives = <<>>
    /\ nGen = 0
    /\ pendingGen = 0
    /\ loadingShown = 0
    /\ genToasts = 0
    /\ form = [generationMode |-> "Exercise Parameters",
               selectedInstrument |-> "Trumpet",
               selectedLevel |-> "Intermediate",
               selectedKey |-> "C Major",
               selectedTimeSignature |-> "4/4",
               selectedMeasures |-> 4,
               customPrompt |-> <<>>]
    /\ chatHistory = <<>>
    /\ chatMessage = <<>>
    /\ chatCalls = <<>>
    /\ io = NoIO

\* ------------------------------------------------------------- generation
\* the ExerciseRequest generateExercise builds from the fields of the page
ExerciseRequest ==
    [instrument |-> form.selectedInstrument,
     level |-> form.selectedLevel,
     key |-> form.selectedKey,
     tempo |-> 60,
     time_signature |-> form.selectedTimeSignature,
     measures |-> form.selectedMeasures,
     custom_prompt |-> form.customPrompt,
     mode |-> form.generationMode]

\* generateExercise(): present the loading indicator and post the request
GenerateExercise ==
    /\ nGen < MaxGen
    /\ nGen' = nGen + 1
    /\ pendingGen' = pendingGen + 1
    /\ loadingShown' = loadingShown + 1
    /\ io' = [NoIO EXCEPT !.op = "generate", !.request = <<ExerciseRequest>>]
    /\ UNCHANGED <<generatedExercise, audioVars, genToasts, form, chatVars>>

\* loadAudio(mp3Url): one new session
LoadAudio(mp3Url) ==
    IF mp3Url = <<>>
    THEN /\ sessions' = Append(sessions, NewSession(<<>>, "empty", 1))
         /\ UNCHANGED <<audioPlayer, isPlaying, natives>>
    ELSE LET torn == IF audioPlayer # 0 THEN StopAndUnload(sessions, audioPlayer)
                     ELSE sessions
         IN  /\ sessions' = Append(torn, NewSession(getFileUrl(mp3Url), "pending", 0))
             /\ audioPlayer' = 0
             /\ UNCHANGED <<isPlaying, natives>>

\* the success callback of generateExercise's subscribe
GenerateSuccess(response) ==
    /\ pendingGen > 0
    /\ pendingGen' = pendingGen - 1
    /\ generatedExercise' = <<response>>
    /\ LoadAudio(response.mp3_url)
    /\ loadingShown' = loadingShown - 1
    /\ UNCHANGED <<nGen, genToasts>>
    /\ UNCHANGED <<form, chatVars>>
    /\ io' = NoIO

\* the error callback of generateExercise's subscribe
\* the error callback as it would be if it left the loading indicator up
GenerateError_NoDismiss ==
    /\ pendingGen > 0
    /\ pendingGen' = pendingGen - 1
    /\ genToasts' = genToasts + 1
    /\ UNCHANGED <<generatedExercise, audioVars, nGen, loadingShown>>
    /\ UNCHANGED <<form, chatVars>>
    /\ io' = NoIO

\* the error callback as it would be if it posted the request again
GenerateError_Retry ==
    /\ pendingGen > 0
    /\ genToasts' = genToasts + 1
    /\ io' = [NoIO EXCEPT !.op = "generate", !.request = <<ExerciseRequest>>]
    /\ UNCHANGED <<generatedExercise, audioVars, nGen, pendingGen, loadingShown>>
    /\ UNCHANGED <<form, chatVars>>

GenerateError ==
    /\ pendingGen > 0
    /\ pendingGen' = pendingGen - 1
    /\ loadingShown' = loadingShown - 1
    /\ genToasts' = genToasts + 1
    /\ UNCHANGED <<generatedExercise, audioVars, nGen>>
    /\ UNCHANGED <<form, chatVars>>
    /\ io' = NoIO

\* ------------------------------------------------------- the form fields
\* the two-way bindings of the generation form
SetGenerationMode(mode) ==
    /\ form' = [form EXCEPT !.generationMode = mode]
    /\ io' = NoIO
    /\ UNCHANGED <<generatedExercise, audioVars, nGen, pendingGen, loadingShown,
                   genToasts, chatVars>>

SetCustomPrompt(text) ==
    /\ form' = [form EXCEPT !.customPrompt = text]
    /\ io' = NoIO
    /\ UNCHANGED <<generatedExercise, audioVars, nGen, pendingGen, loadingShown,
                   genToasts, chatVars>>

SelectInstrument(instrument) ==
    /\ form' = [form EXCEPT !.selectedInstrument = instrument]
    /\ io' = NoIO
    /\ UNCHANGED <<generatedExercise, audioVars, nGen, pendingGen, loadingShown,
                   genToasts, chatVars>>

SelectLevel(level) ==
    /\ form' = [form EXCEPT !.selectedLevel = level]
    /\ io' = NoIO
    /\ UNCHANGED <<generatedExercise, audioVars, nGen, pendingGen, loadingShown,
                   genToasts, chatVars>>

SelectKey(key) ==
    /\ form' = [form EXCEPT !.selectedKey = key]
    /\ io' = NoIO
    /\ UNCHANGED <<generatedExercise, audioVars, nGen, pendingGen, loadingShown,
                   genToasts, chatVars>>

SelectTimeSignature(timeSignature) ==
    /\ form' = [form EXCEPT !.selectedTimeSignature = timeSignature]
    /\ io' = NoIO
    /\ UNCHANGED <<generatedExercise, audioVars, nGen, pendingGen, loadingShown,
                   genToasts, chatVars>>

SelectMeasures(measures) ==
    /\ form' = [form EXCEPT !.selectedMeasures = measures]
    /\ io' = NoIO
    /\ UNCHANGED <<generatedExercise, audioVars, nGen, pendingGen, loadingShown,
                   genToasts, chatVars>>

\* ------------------------------------------------------------ verification
\* createAudioPlayer(fullUrl), called for session s
createAudioPlayer(ss, s) ==
    [ss EXCEPT ![s].howl = "loading", ![s].play = "no"]

\* the .then as it would be if a header warning were thrown as an error
FetchOk_Strict(s, contentType, contentLength) ==
    /\ sessions[s].verif = "pending"
    /\ IF VerificationWarnings(contentType, contentLength) = {}
       THEN /\ sessions' = [createAudioPlayer(sessions, s) EXCEPT ![s].verif = "ok"]
            /\ audioPlayer' = s
       ELSE /\ sessions' = showAudioErrorToast([sessions EXCEPT ![s].verif = "notok"], s)
            /\ UNCHANGED audioPlayer
    /\ io' = [NoIO EXCEPT !.op = "verified",
                          !.ctype = contentType,
                          !.clen = contentLength,
                          !.warns = VerificationWarnings(contentType, contentLength)]
    /\ UNCHANGED <<generatedExercise, isPlaying, natives, nGen, pendingGen,
                   loadingShown, genToasts, form, chatVars>>

\* fetch(fullUrl).then(...) with response.ok: read the headers, warn, build
\* the player, announce it
FetchOk(s, contentType, contentLength) ==
    /\ sessions[s].verif = "pending"
    /\ sessions' = [createAudioPlayer(sessions, s) EXCEPT ![s].verif = "ok"]
    /\ audioPlayer' = s
    /\ io' = [NoIO EXCEPT !.op = "verified",
                          !.ctype = contentType,
                          !.clen = contentLength,
                          !.warns = VerificationWarnings(contentType, contentLength)]
    /\ UNCHANGED <<generatedExercise, isPlaying, natives, nGen, pendingGen,
                   loadingShown, genToasts, form, chatVars>>

\* the .catch as it would be if it only logged the error
FetchFail_Silent(s, outcome) ==
    /\ sessions[s].verif = "pending"
    /\ sessions' = [sessions EXCEPT ![s].verif = outcome]
    /\ UNCHANGED <<generatedExercise, audioPlayer, isPlaying, natives, nGen,
                   pendingGen, loadingShown, genToasts>>
    /\ UNCHANGED <<form, chatVars>>
    /\ io' = NoIO

\* the .catch as it would be if it went to the native Audio on a failed fetch
FetchFail_Fallback(s, outcome) ==
    /\ sessions[s].verif = "pending"
    /\ sessions' = showAudioErrorToast([sessions EXCEPT ![s].verif = outcome], s)
    /\ natives' = IF Len(natives) < MaxNatives
                  THEN Append(natives, [session |-> s, url |-> sessions[s].url,
                                        state |-> "loading"])
                  ELSE natives
    /\ UNCHANGED <<generatedExercise, audioPlayer, isPlaying, nGen,
                   pendingGen, loadingShown, genToasts>>
    /\ UNCHANGED <<form, chatVars>>
    /\ io' = NoIO

\* the .catch of loadAudio: response.ok false ("notok", the .then throws) or
\* the fetch itself rejected ("neterror")
FetchFail(s, outcome) ==
    /\ sessions[s].verif = "pending"
    /\ sessions' = showAudioErrorToast([sessions EXCEPT ![s].verif = outcome], s)
    /\ UNCHANGED <<generatedExercise, audioPlayer, isPlaying, natives, nGen,
                   pendingGen, loadingShown, genToasts>>
    /\ UNCHANGED <<form, chatVars>>
    /\ io' = NoIO

\* ---------------------------------------------------- the fallback player
\* tryNativeAudioFallback(fullUrl), called from a callback of session s's Howl
\*   state  "loading", "starting" (canplaythrough fired, play() pending),
\*          "playing", "failed", "ended"
tryNativeAudioFallback(ns, s, fullUrl) ==
    Append(ns, [session |-> s, url |-> fullUrl, state |-> "loading"])

\* ------------------------------------------------------ callbacks of Howl
\* onload
HowlOnLoad(s) ==
    /\ sessions[s].howl = "loading"
    /\ sessions' = [sessions EXCEPT ![s].howl = "loaded",
                                    ![s].play = IF @ = "queued" THEN "yes" ELSE @]
    /\ UNCHANGED <<generatedExercise, audioPlayer, isPlaying, natives, nGen,
                   pendingGen, loadingShown, genToasts>>
    /\ UNCHANGED <<form, chatVars>>
    /\ io' = NoIO

\* onloaderror as it would be if it gave up with the error toast
HowlOnLoadError_GiveUp(s) ==
    /\ sessions[s].howl = "loading"
    /\ sessions' = showAudioErrorToast(
                       [sessions EXCEPT ![s].howl = "loaderror", ![s].lerr = TRUE], s)
    /\ UNCHANGED <<generatedExercise, audioPlayer, isPlaying, natives, nGen,
                   pendingGen, loadingShown, genToasts>>
    /\ UNCHANGED <<form, chatVars>>
    /\ io' = NoIO

\* onloaderror as it would be if it only logged the error and showed its
\* 'Error loading audio' toast
HowlOnLoadError_NoFallback(s) ==
    /\ sessions[s].howl = "loading"
    /\ Len(natives) < MaxNatives
    /\ sessions' = [sessions EXCEPT ![s].howl = "loaderror", ![s].lerr = TRUE]
    /\ UNCHANGED <<generatedExercise, audioPlayer, isPlaying, natives, nGen,
                   pendingGen, loadingShown, genToasts>>
    /\ UNCHANGED <<form, chatVars>>
    /\ io' = NoIO

\* onloaderror
HowlOnLoadError(s) ==
    /\ sessions[s].howl = "loading"
    /\ Len(natives) < MaxNatives
    /\ sessions' = [sessions EXCEPT ![s].howl = "loaderror", ![s].lerr = TRUE]
    /\ natives' = tryNativeAudioFallback(natives, s, sessions[s].url)
    /\ UNCHANGED <<generatedExercise, audioPlayer, isPlaying, nGen, pendingGen,
                   loadingShown, genToasts>>
    /\ UNCHANGED <<form, chatVars>>
    /\ io' = NoIO

\* onplayerror as it would be if it gave up with the error toast
HowlOnPlayError_GiveUp(s) ==
    /\ sessions[s].howl = "loaded"
    /\ sessions[s].play = "yes"
    /\ sessions' = showAudioErrorToast(
                       [sessions EXCEPT ![s].play = "no", ![s].perr = TRUE], s)
    /\ UNCHANGED <<generatedExercise, audioPlayer, isPlaying, natives, nGen,
                   pendingGen, loadingShown, genToasts>>
    /\ UNCHANGED <<form, chatVars>>
    /\ io' = NoIO

\* onplayerror
HowlOnPlayError(s) ==
    /\ sessions[s].howl = "loaded"
    /\ sessions[s].play = "yes"
    /\ Len(natives) < MaxNatives
    /\ sessions' = [sessions EXCEPT ![s].play = "no", ![s].perr = TRUE]
    /\ natives' = tryNativeAudioFallback(natives, s, sessions[s].url)
    /\ UNCHANGED <<generatedExercise, audioPlayer, isPlaying, nGen, pendingGen,
                   loadingShown, genToasts>>
    /\ UNCHANGED <<form, chatVars>>
    /\ io' = NoIO

\* onend
HowlOnEnd(s) ==
    /\ sessions[s].howl = "loaded"
    /\ sessions[s].play = "yes"
    /\ sessions' = [sessions EXCEPT ![s].play = "no"]
    /\ isPlaying' = FALSE
    /\ UNCHANGED <<generatedExercise, audioPlayer, natives, nGen, pendingGen,
                   loadingShown, genToasts>>
    /\ UNCHANGED <<form, chatVars>>
    /\ io' = NoIO

\* ------------------------------------------- listeners of the native Audio
\* 'canplaythrough': nativeAudio.play() is called
NativeCanPlayThrough(n) ==
    /\ natives[n].state = "loading"
    /\ natives' = [natives EXCEPT ![n].state = "starting"]
    /\ UNCHANGED <<generatedExercise, audioPlayer, isPlaying, sessions, nGen,
                   pendingGen, loadingShown, genToasts>>
    /\ UNCHANGED <<form, chatVars>>
    /\ io' = NoIO

\* nativeAudio.play().then
NativePlayResolved(n) ==
    /\ natives[n].state = "starting"
    /\ natives' = [natives EXCEPT ![n].state = "playing"]
    /\ isPlaying' = TRUE
    /\ UNCHANGED <<generatedExercise, audioPlayer, sessions, nGen, pendingGen,
                   loadingShown, genToasts>>
    /\ UNCHANGED <<form, chatVars>>
    /\ io' = NoIO

\* nativeAudio.play().catch
NativePlayRejected(n) ==
    /\ natives[n].state = "starting"
    /\ natives' = [natives EXCEPT ![n].state = "failed"]
    /\ sessions' = showAudioErrorToast(sessions, natives[n].session)
    /\ UNCHANGED <<generatedExercise, audioPlayer, isPlaying, nGen, pendingGen,
                   loadingShown, genToasts>>
    /\ UNCHANGED <<form, chatVars>>
    /\ io' = NoIO

\* 'error'
NativeError(n) ==
    /\ natives[n].state = "loading"
    /\ natives' = [natives EXCEPT ![n].state = "failed"]
    /\ sessions' = showAudioErrorToast(sessions, natives[n].session)
    /\ UNCHANGED <<generatedExercise, audioPlayer, isPlaying, nGen, pendingGen,
                   loadingShown, genToasts>>
    /\ UNCHANGED <<form, chatVars>>
    /\ io' = NoIO

\* the native Audio reaches the end of the file; the page listens to nothing
NativeEnded(n) ==
    /\ natives[n].state = "playing"
    /\ natives' = [natives EXCEPT ![n].state = "ended"]
    /\ UNCHANGED <<generatedExercise, audioPlayer, isPlaying, sessions, nGen,
                   pendingGen, loadingShown, genToasts>>
    /\ UNCHANGED <<form, chatVars>>
    /\ io' = NoIO

\* ------------------------------------------------------------ download
\* downloadMidi()
\* downloadMidi() as it would be if it paused the player before opening
DownloadMidi_Pausing ==
    /\ io' = IF generatedExercise # <<>>
             THEN [NoIO EXCEPT !.op = "open",
                               !.url = getFileUrl(generatedExercise[1].midi_url)]
             ELSE NoIO
    /\ isPlaying' = IF generatedExercise # <<>> THEN FALSE ELSE isPlaying
    /\ UNCHANGED <<generatedExercise, audioPlayer, sessions, natives, nGen,
                   pendingGen, loadingShown, genToasts, form, chatVars>>

DownloadMidi ==
    /\ io' = IF generatedExercise # <<>>
             THEN [NoIO EXCEPT !.op = "open",
                               !.url = getFileUrl(generatedExercise[1].midi_url)]
             ELSE NoIO
    /\ UNCHANGED <<generatedExercise, audioVars, nGen, pendingGen, loadingShown,
                   genToasts, form, chatVars>>

\* ------------------------------------------------------------ play / pause
\* Howl.play(): starts a loaded Howl, is queued by one that has not loaded
HowlPlay(ss, s) ==
    [ss EXCEPT ![s].play = IF ss[s].howl = "loaded" THEN "yes" ELSE "queued"]

\* Howl.pause(): pauses a loaded Howl, cancels a queued play
HowlPause(ss, s) ==
    [ss EXCEPT ![s].play = "no"]

\* playAudio()
PlayAudio ==
    /\ IF audioPlayer # 0
       THEN /\ sessions' = HowlPlay(sessions, audioPlayer)
            /\ isPlaying' = TRUE
       ELSE UNCHANGED <<sessions, isPlaying>>
    /\ UNCHANGED <<generatedExercise, audioPlayer, natives, nGen, pendingGen,
                   loadingShown, genToasts>>
    /\ UNCHANGED <<form, chatVars>>
    /\ io' = NoIO

\* pauseAudio()
PauseAudio ==
    /\ IF audioPlayer # 0
       THEN /\ sessions' = HowlPause(sessions, audioPlayer)
            /\ isPlaying' = FALSE
       ELSE UNCHANGED <<sessions, isPlaying>>
    /\ UNCHANGED <<generatedExercise, audioPlayer, natives, nGen, pendingGen,
                   loadingShown, genToasts>>
    /\ UNCHANGED <<form, chatVars>>
    /\ io' = NoIO

\* the call of getFileUrl that io holds the arguments of: io gets its result
GetFileUrl ==
    /\ io.op = "getFileUrlCall"
    /\ io' = [io EXCEPT !.op = "getFileUrl",
                        !.url = getFileUrlWith(io.request[1].apiUrl,
                                               io.request[1].relativeUrl)]
    /\ UNCHANGED <<generatedExercise, audioVars, nGen, pendingGen, loadingShown,
                   genToasts, form, chatVars>>

\* -------------------------------------------------------------------- chat
\* the two-way binding of the chat field
SetChatMessage(text) ==
    /\ chatMessage' = text
    /\ io' = NoIO
    /\ UNCHANGED <<generatedExercise, audioVars, nGen, pendingGen, loadingShown,
                   genToasts, form, chatHistory, chatCalls>>

\* The body of the /chat request.  request.history is the chatHistory array
\* itself, and the body is serialised when chat(request) is subscribed to,
\* after the push: it carries the array as pushed.
ChatRequest(pushed) ==
    [message |-> chatMessage,
     history |-> pushed,
     instrument |-> form.selectedInstrument,
     level |-> form.selectedLevel]

\* sendChatMessage() as it would be if it tested the message without trim()
SendChatMessage_NoTrim ==
    IF chatMessage = <<>>
    THEN /\ io' = [NoIO EXCEPT !.op = "sendChatMessage"]
         /\ UNCHANGED <<generatedExercise, audioVars, nGen, pendingGen,
                        loadingShown, genToasts, form, chatVars>>
    ELSE LET pushed == Append(chatHistory, <<chatMessage, Placeholder>>)
         IN  /\ Len(chatCalls) < MaxChat
             /\ chatHistory' = pushed
             /\ chatMessage' = <<>>
             /\ chatCalls' = Append(chatCalls,
                                    [tempMessage |-> chatMessage,
                                     request |-> ChatRequest(pushed),
                                     turn |-> Len(pushed),
                                     state |-> "pending"])
             /\ io' = [NoIO EXCEPT !.op = "sendChatMessage",
                                   !.request = <<ChatRequest(pushed)>>]
             /\ UNCHANGED <<generatedExercise, audioVars, nGen, pendingGen,
                            loadingShown, genToasts, form>>

\* sendChatMessage()
\*   a call keeps tempMessage, the body posted, the position of the turn the
\*   send pushed and its state: "pending", "ok", "failed"
SendChatMessage ==
    IF trim(chatMessage) = <<>>
    THEN /\ io' = [NoIO EXCEPT !.op = "sendChatMessage"]
         /\ UNCHANGED <<generatedExercise, audioVars, nGen, pendingGen,
                        loadingShown, genToasts, form, chatVars>>
    ELSE LET pushed == Append(chatHistory, <<chatMessage, Placeholder>>)
         IN  /\ Len(chatCalls) < MaxChat
             /\ chatHistory' = pushed
             /\ chatMessage' = <<>>
             /\ chatCalls' = Append(chatCalls,
                                    [tempMessage |-> chatMessage,
                                     request |-> ChatRequest(pushed),
                                     turn |-> Len(pushed),
                                     state |-> "pending"])
             /\ io' = [NoIO EXCEPT !.op = "sendChatMessage",
                                   !.request = <<ChatRequest(pushed)>>]
             /\ UNCHANGED <<generatedExercise, audioVars, nGen, pendingGen,
                            loadingShown, genToasts, form>>

\* all but the last element
Front(seq) == SubSeq(seq, 1, Len(seq) - 1)

\* The histories the service can answer a request with: the history it was
\* sent with the reply as a new turn, or with the reply in place of the last
\* turn it was sent.
ChatResponses(request) ==
    { Append(request.history, <<request.message, Reply>>),
      Append(Front(request.history), <<request.message, Reply>>) }

\* the success callback as it would be if it kept the local turns and added
\* the last turn of the response
ChatSuccess_Merge(c, history) ==
    /\ chatCalls[c].state = "pending"
    /\ chatHistory' = Append(chatHistory, history[Len(history)])
    /\ chatCalls' = [chatCalls EXCEPT ![c].state = "ok"]
    /\ io' = [NoIO EXCEPT !.op = "chatSuccess", !.history = history, !.call = c]
    /\ UNCHANGED <<generatedExercise, audioVars, nGen, pendingGen, loadingShown,
                   genToasts, form, chatMessage>>

\* the success callback of sendChatMessage's subscribe
ChatSuccess(c, history) ==
    /\ chatCalls[c].state = "pending"
    /\ chatHistory' = history
    /\ chatCalls' = [chatCalls EXCEPT ![c].state = "ok"]
    /\ io' = [NoIO EXCEPT !.op = "chatSuccess", !.history = history, !.call = c]
    /\ UNCHANGED <<generatedExercise, audioVars, nGen, pendingGen, loadingShown,
                   genToasts, form, chatMessage>>

\* the error callback of sendChatMessage's subscribe
ChatError(c) ==
    LET lastIndex == Len(chatHistory)
    IN  /\ chatCalls[c].state = "pending"
        /\ chatHistory' =
               IF lastIndex >= 1 /\ chatHistory[lastIndex][1] = chatCalls[c].tempMessage
               THEN [chatHistory EXCEPT ![lastIndex][2] = ErrorMarker]
               ELSE chatHistory
        /\ chatCalls' = [chatCalls EXCEPT ![c].state = "failed"]
        /\ io' = [NoIO EXCEPT !.op = "chatError", !.call = c]
        /\ UNCHANGED <<generatedExercise, audioVars, nGen, pendingGen,
                       loadingShown, genToasts, form, chatMessage>>

\* ------------------------------------------------------- the specification
Next ==
    \/ GenerateExercise
    \/ \E response \in Responses(Len(sessions) + 1) : GenerateSuccess(response)
    \/ GenerateError
    \/ \E s \in SessionIds : \E contentType \in ContentTypes :
           \E contentLength \in ContentLengths : FetchOk(s, contentType, contentLength)
    \/ \E s \in SessionIds : \E outcome \in {"notok", "neterror"} : FetchFail(s, outcome)
    \/ \E s \in SessionIds : HowlOnLoad(s)
    \/ \E s \in SessionIds : HowlOnLoadError(s)
    \/ \E s \in SessionIds : HowlOnPlayError(s)
    \/ \E s \in SessionIds : HowlOnEnd(s)
    \/ \E n \in NativeIds : NativeCanPlayThrough(n)
    \/ \E n \in NativeIds : NativePlayResolved(n)
    \/ \E n \in NativeIds : NativePlayRejected(n)
    \/ \E n \in NativeIds : NativeError(n)
    \/ \E n \in NativeIds : NativeEnded(n)
    \/ PlayAudio
    \/ PauseAudio
    \/ DownloadMidi

Spec == Init /\ [][Next]_vars

\* The page with its callbacks under the browser's scheduling: the fetch of
\* every session settles, every Howl that is loading and every native Audio
\* that is loading fires its load or its error callback, and the promise of
\* every nativeAudio.play() settles.  Nothing is assumed of the user or of
\* the /generate service.
\* The headers of an ok response change nothing but the warnings logged, so
\* one pair of headers stands for all.
FetchSettles(s) ==
    /\ s \in SessionIds
    /\ \/ FetchOk(s, <<>>, <<>>)
       \/ \E outcome \in {"notok", "neterror"} : FetchFail(s, outcome)

HowlLoadSettles(s) ==
    /\ s \in SessionIds
    /\ (HowlOnLoad(s) \/ HowlOnLoadError(s))

NativeLoadSettles(n) ==
    /\ n \in NativeIds
    /\ (NativeCanPlayThrough(n) \/ NativeError(n))

NativePlaySettles(n) ==
    /\ n \in NativeIds
    /\ (NativePlayResolved(n) \/ NativePlayRejected(n))

Fairness ==
    /\ \A s \in 1..MaxGen : WF_vars(FetchSettles(s))
    /\ \A s \in 1..MaxGen : WF_vars(HowlLoadSettles(s))
    /\ \A n \in 1..MaxNatives : WF_vars(NativeLoadSettles(n))
    /\ \A n \in 1..MaxNatives : WF_vars(NativePlaySettles(n))

\* the steps that start, advance and end playback sessions
NextSessions ==
    \/ GenerateExercise
    \/ \E response \in Responses(Len(sessions) + 1) : GenerateSuccess(response)
    \/ \E s \in SessionIds : FetchSettles(s)
    \/ \E s \in SessionIds : HowlLoadSettles(s)
    \/ \E s \in SessionIds : HowlOnPlayError(s)
    \/ \E s \in SessionIds : HowlOnEnd(s)
    \/ \E n \in NativeIds : NativeLoadSettles(n)
    \/ \E n \in NativeIds : NativePlaySettles(n)
    \/ \E n \in NativeIds : NativeEnded(n)
    \/ PlayAudio
    \/ PauseAudio

SpecFair == Init /\ [][NextSessions]_vars /\ Fairness

\* the generation form and the requests built from it
NextForm ==
    \/ \E mode \in generationModes : SetGenerationMode(mode)
    \/ \E text \in PromptTexts : SetCustomPrompt(text)
    \/ \E instrument \in instruments : SelectInstrument(instrument)
    \/ \E level \in levels : SelectLevel(level)
    \/ \E key \in keys : SelectKey(key)
    \/ \E timeSignature \in timeSignatures : SelectTimeSignature(timeSignature)
    \/ \E measures \in measureOptions : SelectMeasures(measures)
    \/ GenerateExercise
    \/ \E response \in Responses(Len(sessions) + 1) : GenerateSuccess(response)
    \/ GenerateError

SpecForm == Init /\ [][NextForm]_vars

\* the chat
NextChat ==
    \/ \E text \in ChatTexts : SetChatMessage(text)
    \/ SendChatMessage
    \/ \E c \in 1..Len(chatCalls) :
           \E history \in ChatResponses(chatCalls[c].request) : ChatSuccess(c, history)
    \/ \E c \in 1..Len(chatCalls) : ChatError(c)

SpecChat == Init /\ [][NextChat]_vars

\* getFileUrl as a function of the configured origin and the reference: a
\* fresh page and a call about to be made with any origin and any reference
InitUrl ==
    /\ generatedExercise = <<>>
    /\ audioPlayer = 0
    /\ isPlaying = FALSE
    /\ sessions = <<>>
    /\ natives = <<>>
    /\ nGen = 0
    /\ pendingGen = 0
    /\ loadingShown = 0
    /\ genToasts = 0
    /\ form = [generationMode |-> "Exercise Parameters",
               selectedInstrument |-> "Trumpet",
               selectedLevel |-> "Intermediate",
               selectedKey |-> "C Major",
               selectedTimeSignature |-> "4/4",
               selectedMeasures |-> 4,
               customPrompt |-> <<>>]
    /\ chatHistory = <<>>
    /\ chatMessage = <<>>
    /\ chatCalls = <<>>
    /\ \E apiUrl \in ApiUrls : \E relativeUrl \in Refs :
           io = [NoIO EXCEPT !.op = "getFileUrlCall",
                             !.request = <<[apiUrl |-> apiUrl,
                                            relativeUrl |-> relativeUrl]>>]

NextUrl == GetFileUrl

SpecUrl == InitUrl /\ [][NextUrl]_vars

\* the callers of getFileUrl, with responses whose references may be empty
NextRefs ==
    \/ GenerateExercise
    \/ \E response \in ResponsesAnyMidi(Len(sessions) + 1) : GenerateSuccess(response)
    \/ GenerateError
    \/ \E s \in SessionIds : \E contentType \in ContentTypes :
           \E contentLength \in ContentLengths : FetchOk(s, contentType, contentLength)
    \/ \E s \in SessionIds : \E outcome \in {"notok", "neterror"} : FetchFail(s, outcome)
    \/ DownloadMidi

SpecRefs == Init /\ [][NextRefs]_vars

\* ------------------------------------------------------------------ claims
\* the players that are sounding
HowlPlaying(s) == sessions[s].howl = "loaded" /\ sessions[s].play = "yes"
NativePlaying(n) == natives[n].state = "playing"
ActivePlayers ==
    { <<"howl", s>> : s \in { t \in SessionIds : HowlPlaying(t) } }
    \cup { <<"native", n>> : n \in { m \in NativeIds : NativePlaying(m) } }

\* the fallback players built for session s
NativesOf(s) == { n \in NativeIds : natives[n].session = s }
FailedNativesOf(s) == { n \in NativesOf(s) : natives[n].state = "failed" }

VerificationFailed(s) == sessions[s].verif \in {"notok", "neterror"}
FallbackError(s) == FailedNativesOf(s) # {}

\* C1: a Howl is built for a session only after that session's fetch has
\* succeeded; once the verification of the session loadAudio started last has
\* failed, no Howl exists for it and audioPlayer is null.
C1_FailedVerificationLeavesNoPlayer ==
    /\ \A s \in SessionIds : sessions[s].howl # "none" => sessions[s].verif = "ok"
    /\ LET s == Len(sessions)
       IN  (s > 0 /\ VerificationFailed(s)) =>
               (sessions[s].howl = "none" /\ audioPlayer = 0)

\* C2: at no time are two players (Howl or native Audio) sounding.
C2_AtMostOneActivePlayer == Cardinality(ActivePlayers) <= 1

\* C3: while a fallback Audio of a session exists, the session's Howl has been
\* stopped and unloaded and audioPlayer does not hold it, so no Howl plays
\* next to its own fallback.
C3_FallbackTearsDownPrimary ==
    \A n \in NativeIds :
        /\ sessions[natives[n].session].howl = "unloaded"
        /\ audioPlayer # natives[n].session

\* C4: every Howl that has reported a load error has had a fallback Audio
\* built for its URL, and the error toast is shown for its session only for a
\* fallback that failed.
C4_LoadErrorEntersFallback ==
    \A s \in SessionIds :
        sessions[s].lerr =>
            /\ \E n \in NativesOf(s) : natives[n].url = sessions[s].url
            /\ sessions[s].errToasts <= Cardinality(FailedNativesOf(s))

C4_Witness ==
    \E s \in SessionIds :
        /\ sessions[s].howl = "loaderror"
        /\ \E n \in NativesOf(s) : natives[n].state = "loading"

\* C5: every terminal failure (empty reference, failed verification, failed
\* fallback) has shown the error toast with the MIDI download button, and a
\* session that ended on the empty reference or in verification has no player.
C5_FailureShowsDownloadToast ==
    \A s \in SessionIds :
        /\ sessions[s].errToasts >=
               (IF sessions[s].verif \in {"empty", "notok", "neterror"} THEN 1 ELSE 0)
               + Cardinality(FailedNativesOf(s))
        /\ sessions[s].verif \in {"empty", "notok", "neterror"} =>
               (sessions[s].howl = "none" /\ NativesOf(s) = {})

C5_Witness ==
    /\ \E s \in SessionIds : VerificationFailed(s) /\ sessions[s].errToasts = 1
    /\ \E s \in SessionIds : FallbackError(s) /\ sessions[s].errToasts = 1

\* C6: every loadAudio call made while audioPlayer holds a Howl stops and
\* unloads that Howl and clears audioPlayer, whatever the reference is.
C6_LoadAudioReplacesSession ==
    [][(Len(sessions') = Len(sessions) + 1 /\ audioPlayer # 0) =>
           (audioPlayer' = 0 /\ sessions'[audioPlayer].howl = "unloaded")]_vars

\* C7: once the session loadAudio started last is in VerificationFailed or
\* FallbackError, nothing about its playback changes until the next loadAudio:
\* no player is built, its players stay as they are and isPlaying keeps its
\* value.
C7_TerminalIsFinal ==
    [][LET s == Len(sessions)
       IN  (s > 0 /\ (VerificationFailed(s) \/ FallbackError(s))
                  /\ Len(sessions') = s) =>
               /\ isPlaying' = isPlaying
               /\ sessions'[s] = sessions[s]
               /\ Len(natives') = Len(natives)
               /\ \A n \in NativesOf(s) : natives'[n] = natives[n]]_vars

\* a player that can be played or paused: a loaded Howl held by audioPlayer,
\* or a fallback Audio that is starting or playing
Playable ==
    \/ audioPlayer # 0 /\ sessions[audioPlayer].howl = "loaded"
    \/ \E n \in NativeIds : natives[n].state \in {"starting", "playing"}

\* C8: playAudio and pauseAudio issue no player command and leave isPlaying
\* unchanged whenever no player is in a playable state.
C8_PlayPauseNoOpUnlessPlayable ==
    [][((PlayAudio \/ PauseAudio) /\ ~Playable) =>
           (isPlaying' = isPlaying /\ sessions' = sessions)]_vars

\* C9: every Howl that has reported a play error has had a fallback Audio
\* built for the same URL.
C9_PlayErrorEntersFallback ==
    \A s \in SessionIds :
        sessions[s].perr =>
            \E n \in NativesOf(s) : natives[n].url = sessions[s].url

C9_Witness ==
    \E s \in SessionIds :
        /\ sessions[s].perr
        /\ sessions[s].howl = "loaded"
        /\ \E n \in NativesOf(s) : natives[n].state = "loading"

\* C10: every fallback Audio belongs to a session whose fetch succeeded, whose
\* Howl was built and whose Howl has reported a load error or a play error.
C10_FallbackOnlyAfterPrimaryFailure ==
    \A n \in NativeIds :
        LET s == natives[n].session
        IN  /\ s \in SessionIds
            /\ sessions[s].verif = "ok"
            /\ sessions[s].howl # "none"
            /\ (sessions[s].lerr \/ sessions[s].perr)

C10_Witness ==
    \E n \in NativeIds :
        /\ natives[n].state = "playing"
        /\ sessions[natives[n].session].howl \in {"loaderror", "unloaded"}

\* C11: a fetch response that is ok makes the session verified and builds its
\* Howl, held by audioPlayer and not yet loaded, whatever warnings its
\* Content-Type and Content-Length headers raised; no error toast is shown.
C11_HeaderWarningsAreSoft ==
    io.op = "verified" =>
        /\ audioPlayer \in SessionIds
        /\ sessions[audioPlayer].verif = "ok"
        /\ sessions[audioPlayer].howl = "loading"
        /\ sessions[audioPlayer].play = "no"
        /\ sessions[audioPlayer].errToasts = 0

C11_Witness ==
    /\ io.op = "verified"
    /\ io.warns = {"type", "size"}
    /\ io.clen = <<"9", "9", "9">>
    /\ audioPlayer \in SessionIds
    /\ sessions[audioPlayer].howl = "loading"

C13_OneGenerationInFlight == pendingGen <= 1

\* C14: a step that shows the generation-failure toast shows exactly one,
\* completes one call, posts no request, and leaves generatedExercise,
\* audioPlayer and isPlaying as they were.
C14_GenerationFailureOnlyNotifies ==
    [][genToasts' # genToasts =>
          /\ genToasts' = genToasts + 1
          /\ pendingGen' = pendingGen - 1
          /\ io'.op # "generate"
          /\ UNCHANGED <<generatedExercise, audioPlayer, isPlaying>>]_vars

C14_Witness ==
    /\ genToasts = 1
    /\ nGen = 2
    /\ pendingGen = 0
    /\ generatedExercise # <<>>
    /\ audioPlayer \in SessionIds
    /\ isPlaying

\* C15: every request posted by generateExercise has a non-empty custom_prompt
\* when its mode is 'Exercise Prompt', and an instrument, level, key, time
\* signature and number of measures from the form's options when its mode is
\* 'Exercise Parameters'.
C15_SubmittedRequestIsWellFormed ==
    io.op = "generate" =>
        LET request == io.request[1]
        IN  /\ request.mode = "Exercise Prompt" => request.custom_prompt # <<>>
            /\ request.mode = "Exercise Parameters" =>
                   /\ request.instrument \in instruments
                   /\ request.level \in levels
                   /\ request.key \in keys
                   /\ request.time_signature \in timeSignatures
                   /\ request.measures \in measureOptions

\* C16: whenever a generated exercise exists, whatever the playback state,
\* downloadMidi can open a window, and every step that opens one opens the
\* resolved midi_url of the generated exercise and leaves audioPlayer,
\* isPlaying, the players and the chat transcript as they were.
C16_DownloadIndependentOfPlayback ==
    /\ [](generatedExercise # <<>> => ENABLED (DownloadMidi /\ io'.op = "open"))
    /\ [][io'.op = "open" =>
             /\ generatedExercise # <<>>
             /\ io'.url = getFileUrl(generatedExercise[1].midi_url)
             /\ UNCHANGED <<generatedExercise, audioVars, chatHistory>>]_vars

C16_Witness ==
    /\ io.op = "open"
    /\ io.url = ApiUrl \o MidiRef
    /\ isPlaying
    /\ ActivePlayers # {}

\* C17: a sendChatMessage step taken with a message that is empty after
\* trim() posts nothing and leaves chatHistory and the calls made unchanged.
C17_BlankMessageIsRejected ==
    [][(io'.op = "sendChatMessage" /\ trim(chatMessage) = <<>>) =>
          /\ io'.request = <<>>
          /\ UNCHANGED <<chatHistory, chatCalls>>]_vars

C17_Witness ==
    /\ io.op = "sendChatMessage"
    /\ io.request = <<>>
    /\ chatMessage = <<" ">>
    /\ chatHistory # <<>>

\* C18: after the success callback of a chat call, chatHistory is the history
\* of the response.
C18_SuccessReplacesTranscript ==
    io.op = "chatSuccess" => chatHistory = io.history

C18_Witness ==
    /\ io.op = "chatSuccess"
    /\ Len(chatCalls) = 1
    /\ chatCalls[1].tempMessage = <<"a">>
    /\ chatHistory = << <<(<<"a">>), Reply>> >>

\* C19: the history posted by a send is the transcript as it was before the
\* send (the transcript after it without its last turn), and holds no
\* placeholder turn for the message sent.
C19_RequestCarriesHistorySoFar ==
    (io.op = "sendChatMessage" /\ io.request # <<>>) =>
        LET request == io.request[1]
        IN  /\ request.history = Front(chatHistory)
            /\ \A i \in 1..Len(request.history) :
                   request.history[i] # <<request.message, Placeholder>>

\* C20: once the error callback of a send has run, the turn that send pushed,
\* while it is in the transcript, does not show the placeholder.
C20_FailedSendLosesPlaceholder ==
    io.op = "chatError" =>
        LET call == chatCalls[io.call]
        IN  (/\ call.turn <= Len(chatHistory)
             /\ chatHistory[call.turn][1] = call.tempMessage) =>
                chatHistory[call.turn][2] # Placeholder

\* the calls whose response has not arrived
PendingChatCalls == { c \in 1..Len(chatCalls) : chatCalls[c].state = "pending" }

\* the turns still showing the placeholder
ProvisionalTurns == { i \in 1..Len(chatHistory) : chatHistory[i][2] = Placeholder }

\* C21: at most one chat request is in flight and at most one turn of the
\* transcript shows the placeholder.
C21_OneUnconfirmedTurn ==
    /\ Cardinality(PendingChatCalls) <= 1
    /\ Cardinality(ProvisionalTurns) <= 1

\* C22: once every response has arrived, the outcome of the message sent last
\* is the one applied last (after its success the transcript is a history the
\* service answers that request with), and the text of every message sent is
\* the user text of a turn.
C22_ReconciledInSendOrder ==
    (chatCalls # <<>> /\ PendingChatCalls = {}) =>
        LET last == chatCalls[Len(chatCalls)]
        IN  /\ last.state = "ok" => chatHistory \in ChatResponses(last.request)
            /\ \A c \in 1..Len(chatCalls) :
                   \E i \in 1..Len(chatHistory) :
                       chatHistory[i][1] = chatCalls[c].tempMessage

\* C23: a turn showing the error marker is, after every step, still in the
\* transcript at its position and unchanged.
C23_ErrorTurnsRemain ==
    [][\A i \in 1..Len(chatHistory) :
          chatHistory[i][2] = ErrorMarker =>
              /\ i <= Len(chatHistory')
              /\ chatHistory'[i] = chatHistory[i]]_vars

\* C28: while isPlaying is true a player is active: the Howl held by
\* audioPlayer has been told to play, or a fallback Audio is playing.
C28_IsPlayingMeansActivePlayer ==
    isPlaying =>
        \/ audioPlayer # 0 /\ sessions[audioPlayer].play \in {"queued", "yes"}
        \/ \E n \in NativeIds : NativePlaying(n)

\* C29: the Howl held by audioPlayer was built for the resolved mp3_url of
\* the generated exercise.
C29_PlayerBoundToCurrentExercise ==
    audioPlayer # 0 =>
        /\ generatedExercise # <<>>
        /\ sessions[audioPlayer].url = getFileUrl(generatedExercise[1].mp3_url)

\* C30: after a pauseAudio step taken with a player held by audioPlayer,
\* neither the Howl of that session nor a fallback Audio of that session is
\* playing.
C30_PauseSilencesEveryPlayer ==
    [][(PauseAudio /\ audioPlayer # 0) =>
           /\ ~(sessions'[audioPlayer].howl = "loaded"
                 /\ sessions'[audioPlayer].play = "yes")
           /\ \A n \in NativesOf(audioPlayer) : natives'[n].state # "playing"]_vars

\* C24: downloadMidi opens a window only for a non-empty midi_url and never
\* opens the empty location, and every fetch loadAudio has started is for a
\* non-empty URL.
C24_EmptyReferenceNeverUsed ==
    /\ io.op = "open" =>
           (generatedExercise[1].midi_url # <<>> /\ io.url # <<>>)
    /\ \A s \in SessionIds : sessions[s].verif # "empty" => sessions[s].url # <<>>

\* a reference that has a scheme: letters, then a colon
SchemeChars == {"h", "t", "p", "f"}
HasScheme(ref) ==
    \E i \in 2..Len(ref) :
        ref[i] = ":" /\ \A j \in 1..(i - 1) : ref[j] \in SchemeChars

\* the origin without its trailing slash
StripSlash(apiUrl) ==
    IF EndsWith(apiUrl, <<"/">>) THEN SubSeq(apiUrl, 1, Len(apiUrl) - 1) ELSE apiUrl

\* two slashes at positions i and i + 1 of url
DoubleSlashAt(url, i) ==
    i >= 1 /\ i + 1 <= Len(url) /\ url[i] = "/" /\ url[i + 1] = "/"

\* C25: for a non-empty reference without a scheme, getFileUrl returns the
\* origin without its trailing slash followed by the reference, prefixed
\* with one slash if it has none, and no two slashes meet where they join.
C25_RelativeIsJoinedWithOneSlash ==
    io.op = "getFileUrl" =>
        LET apiUrl == io.request[1].apiUrl
            relativeUrl == io.request[1].relativeUrl
            origin == StripSlash(apiUrl)
        IN  (relativeUrl # <<>> /\ ~HasScheme(relativeUrl)) =>
                /\ io.url = origin \o (IF relativeUrl[1] = "/" THEN relativeUrl
                                        ELSE <<"/">> \o relativeUrl)
                /\ ~DoubleSlashAt(io.url, Len(origin))
                /\ ~DoubleSlashAt(io.url, Len(origin) + 1)

\* C26: getFileUrl returns a non-empty reference unchanged exactly when the
\* reference has a scheme.
C26_UnchangedIffAbsolute ==
    io.op = "getFileUrl" =>
        LET relativeUrl == io.request[1].relativeUrl
        IN  relativeUrl # <<>> => ((io.url = relativeUrl) <=> HasScheme(relativeUrl))

\* C27: for a non-empty reference, the URL getFileUrl returns has a scheme,
\* and getFileUrl applied to it returns it.
C27_AbsoluteAndIdempotent ==
    io.op = "getFileUrl" =>
        LET apiUrl == io.request[1].apiUrl
            relativeUrl == io.request[1].relativeUrl
        IN  relativeUrl # <<>> =>
                /\ HasScheme(io.url)
                /\ getFileUrlWith(apiUrl, io.url) = io.url

\* C31: the error callback of a chat call changes no turn other than one that
\* shows the placeholder: a turn whose assistant text came from the service
\* (or is an error marker) is left as it is.
C31_ErrorSparesConfirmedTurns ==
    [][io'.op = "chatError" =>
          /\ Len(chatHistory') = Len(chatHistory)
          /\ \A i \in 1..Len(chatHistory) :
                 chatHistory'[i] # chatHistory[i] => chatHistory[i][2] = Placeholder]_vars

\* the states of the session loadAudio started with its s-th call
Started(s) == s \in SessionIds /\ sessions[s].verif # "empty"
Verifying(s) == sessions[s].verif = "pending"
PrimaryLoading(s) == sessions[s].howl = "loading"
FallbackLoading(s) ==
    \E n \in NativesOf(s) : natives[n].state \in {"loading", "starting"}
InProgress(s) == Verifying(s) \/ PrimaryLoading(s) \/ FallbackLoading(s)
PrimaryReady(s) == sessions[s].howl = "loaded"
FallbackPlaying(s) ==
    \E n \in NativesOf(s) : natives[n].state \in {"playing", "ended"}
TerminalFailure(s) ==
    /\ VerificationFailed(s) \/ FallbackError(s)
    /\ sessions[s].errToasts >= 1
Settled(s) ==
    /\ s \in SessionIds
    /\ ~InProgress(s)
    /\ (PrimaryReady(s) \/ FallbackPlaying(s) \/ TerminalFailure(s))
\* onload or onloaderror of the session's Howl has fired
LoadCallbackFired(s) ==
    s \in SessionIds /\ (sessions[s].howl = "loaded" \/ sessions[s].lerr)

\* C32: assuming that every fetch settles, that every native load and play
\* settles (Fairness) and that the Howl of session s, once loading, gets its
\* onload or onloaderror, a session started with a non-empty reference goes
\* from Verifying to a state where its Howl is loaded, its fallback plays, or
\* its failure has shown the error toast with the download action, and
\* whenever it is in Verifying, PrimaryLoading or FallbackLoading it leaves
\* them again.
C32_EverySessionSettles ==
    \A s \in 1..MaxGen :
        ((s \in SessionIds /\ PrimaryLoading(s)) ~> LoadCallbackFired(s))
            => /\ (s \in SessionIds /\ Started(s) /\ Verifying(s)) ~> Settled(s)
               /\ (s \in SessionIds /\ InProgress(s))
                      ~> (s \in SessionIds /\ ~InProgress(s))

\* the second session fell back after a load error and its fallback plays,
\* the first one failed its verification and showed the error toast
C32_Witness ==
    /\ Len(sessions) = 2
    /\ TerminalFailure(1) /\ Settled(1)
    /\ sessions[2].lerr
    /\ FallbackPlaying(2) /\ Settled(2)

====
